---- MODULE Spec2Model ----
(***************************************************************************)
(* Best-price purchase planner (zlorfi/best_price).                        *)
(*                                                                         *)
(* Three scripts solve the same problem on the same catalog (shops.json):  *)
(*   bestPriceDPOptimized.ts  greedy seed + branch-and-bound dp + replay   *)
(*   bestPriceDP.ts           memoised dp returning {cost, selection,shops}*)
(*   bestPrice.ts             brute-force backtracking                     *)
(* and the benchmark script compares bruteForce with dynamicProgramming.   *)
(*                                                                         *)
(* Every script is a straight-line program: build the catalog index, take  *)
(* the requested item sequence, run the (recursive, synchronous) search,   *)
(* print the plan.  Each phase is one action; the recursive functions are  *)
(* RECURSIVE operators that thread the mutable state they write (memo,     *)
(* bestCost, bestShopCount, shopsUsedSet) through every call and return.   *)
(***************************************************************************)
EXTENDS Integers, Sequences, FiniteSets, TLC

(* ---------- bounds of the model ---------- *)

\* prices of the enumerated catalogs are 0..MaxPrice
MaxPrice == 1
\* the enumerated catalogs hold at most MaxOffers (shop, item, price) entries
MaxOffers == 5

\* shop names in the order of Object.entries(shopsData); shopIndex = position - 1
ShopNames == <<"V1", "V2", "V3">>
\* item identifiers that a request may name
ItemOrder == <<"A", "B", "C">>
ItemIds == {ItemOrder[i] : i \in DOMAIN ItemOrder}

\* JavaScript's Infinity: larger than every finite cost of the model
Infinity == 1000000
\* marks a (shop, item) pair the shop does not list
NoOffer == -1

Shops == 1..Len(ShopNames)

(* ---------- helpers on sequences and bit masks ---------- *)

Min(a, b) == IF a < b THEN a ELSE b

RECURSIVE BitOr(_, _)
\* a | b on non-negative masks
BitOr(a, b) ==
  IF a = 0 THEN b
  ELSE IF b = 0 THEN a
  ELSE (IF a % 2 = 1 \/ b % 2 = 1 THEN 1 ELSE 0) + 2 * BitOr(a \div 2, b \div 2)

RECURSIVE BitAnd(_, _)
\* a & b on non-negative masks
BitAnd(a, b) ==
  IF a = 0 \/ b = 0 THEN 0
  ELSE (IF a % 2 = 1 /\ b % 2 = 1 THEN 1 ELSE 0) + 2 * BitAnd(a \div 2, b \div 2)

\* 1 << shopIndex (the shift count is taken modulo 32)
Shl1(shopIndex) == 2 ^ (shopIndex % 32)

RECURSIVE popcount(_)
\* while (n) { count += n & 1; n >>= 1; }
popcount(n) == IF n = 0 THEN 0 ELSE (n % 2) + popcount(n \div 2)

RECURSIVE SumPrices(_)
SumPrices(sel) == IF sel = <<>> THEN 0 ELSE Head(sel).price + SumPrices(Tail(sel))

\* the distinct shops of a selection: new Set(selection.map(s => s.shop))
ShopsOf(sel) == {sel[i].shop : i \in DOMAIN sel}

(* ---------- 32-bit integers, as the set of the positions of their 1 bits ---------- *)

\* the width of the operands of <<, |, & and >>
Int32Bits == 32

\* 1 << shopIndex: the shift count is taken modulo 32, and bit 31 is the sign bit
Int32Shl1(shopIndex) == {shopIndex % Int32Bits}

\* a | b
Int32Or(a, b) == a \cup b

\* n & 1
Int32And1(n) == IF 0 \in n THEN 1 ELSE 0

\* n >> 1: every bit moves down one position and the sign bit is kept
Int32Sar1(n) == {b - 1 : b \in n \ {0}} \cup (n \cap {Int32Bits - 1})

(* ---------- catalog index ---------- *)

RECURSIVE OptionsFrom(_, _, _)
\* the options of item id contributed by shops k..last, in shop order
OptionsFrom(sd, id, k) ==
  IF k > Len(ShopNames) THEN <<>>
  ELSE (IF sd[k][id] = NoOffer THEN <<>>
        ELSE <<[shop |-> ShopNames[k], price |-> sd[k][id], shopIndex |-> k - 1]>>)
       \o OptionsFrom(sd, id, k + 1)

\* itemToShops: only items some shop lists become keys of the Map
BuildItemToShops(sd) ==
  [id \in {i \in ItemIds : \E k \in Shops : sd[k][i] # NoOffer} |-> OptionsFrom(sd, id, 1)]

\* itemToShops.get(id), with <<>> standing for undefined
GetOptions(m, id) == IF id \in DOMAIN m THEN m[id] ELSE <<>>

RECURSIVE InsertByPrice(_, _)
\* insert o after every element whose price is <= o.price (keeps the sort stable)
InsertByPrice(sorted, o) ==
  IF sorted = <<>> THEN <<o>>
  ELSE IF Head(sorted).price <= o.price
       THEN <<Head(sorted)>> \o InsertByPrice(Tail(sorted), o)
       ELSE <<o>> \o sorted

\* mutant of SortByPrice: the options stay in catalog order
SortByPrice_unsorted(opts) == opts

RECURSIVE SortByPrice(_)
\* [...options].sort((a, b) => a.price - b.price): stable, ascending by price
SortByPrice(opts) ==
  IF opts = <<>> THEN <<>>
  ELSE InsertByPrice(SortByPrice(SubSeq(opts, 1, Len(opts) - 1)), opts[Len(opts)])

\* mutant of SortedCopy: options.sort(...) without the spread sorts the array in place
SortedCopy_inPlace(options) ==
  [array |-> SortByPrice(options), sorted |-> SortByPrice(options)]

\* [...options].sort((a, b) => a.price - b.price): the spread makes a new array, which
\* is sorted and returned; `array` is what the options array itself holds afterwards
SortedCopy(options) == [array |-> options, sorted |-> SortByPrice(options)]

(* ---------- state ---------- *)

VARIABLES
  script,            \* which script of the repository is running
  shopsData,         \* data.shops: shop (in file order) -> item -> price or NoOffer
  itemToShops,       \* Map item id -> PriceOption[]
  selectedItemIds,   \* the requested item sequence
  pc,                \* position of the running script
  dpState,           \* bestPriceDPOptimized.ts: memo, bestCost, bestShopCount, counters
  optimalSelection,  \* bestPriceDPOptimized.ts: the replayed selection
  currentMask,       \* bestPriceDPOptimized.ts: mask of the replayed selection
  memo,              \* bestPriceDP.ts: Map key -> DPState
  dpResult,          \* bestPriceDP.ts: dp(0, 0)
  pop,               \* popcount: the shop indexes of the mask, n and count
  bestCost,          \* bestPrice.ts
  bestShopCount,     \* bestPrice.ts
  bestSelection,     \* bestPrice.ts
  shopsUsedLog,      \* bestPrice.ts: history of backtrack's currentSelection and shopsUsedSet
  bench,             \* benchmark: bfResult.cost, dpResult.cost, status of one test size
  shopList,          \* shop names in index order (shopNameToIndex is the position - 1)
  allItemIds,        \* Array.from(itemToShops.keys())
  arg,               \* process.argv[2]
  itemCount,         \* the number of items to pick
  used,              \* pickRandomItems: the Set of picked ids
  result             \* the printed Result, or NoResult

vars == <<script, shopsData, itemToShops, selectedItemIds, pc, dpState, optimalSelection,
          currentMask, memo, dpResult, pop, bestCost, bestShopCount, bestSelection,
          shopsUsedLog, bench,
          shopList, allItemIds, arg, itemCount, used, result>>

\* the catalog index and the request: written by no step of a solve
catalog == <<script, shopsData, itemToShops, selectedItemIds>>
frontEnd == <<shopList, allItemIds, arg, itemCount, used>>
inputs == <<catalog, frontEnd>>
optVars == <<dpState, optimalSelection, currentMask>>
dpVars == <<memo, dpResult, pop>>
bfVars == <<bestCost, bestShopCount, bestSelection, shopsUsedLog>>

NoResult == [printed |-> FALSE]

\* selectedItemIds.length
N == Len(selectedItemIds)

\* stateKey(itemIndex, shopsBitmask): the string `${itemIndex}:${shopsBitmask}`
stateKey(itemIndex, shopsBitmask) == <<itemIndex, shopsBitmask>>

\* memo.set(key, value)
MemoSet(m, key, value) == [k \in DOMAIN m \cup {key} |-> IF k = key THEN value ELSE m[k]]

(* ---------- bestPriceDPOptimized.ts: bound estimator ---------- *)

RECURSIVE CheapestFirst(_, _)
\* let cheapest = options[0]; for (opt of options) if (opt.price < cheapest.price) cheapest = opt
CheapestFirst(opts, cheapest) ==
  IF opts = <<>> THEN cheapest
  ELSE CheapestFirst(Tail(opts), IF Head(opts).price < cheapest.price THEN Head(opts) ELSE cheapest)

RECURSIVE GreedyLoop_assign(_, _, _)
\* mutant of GreedyLoop: totalCost = cheapest.price instead of totalCost += cheapest.price
GreedyLoop_assign(itemIds, totalCost, shopsUsed) ==
  IF itemIds = <<>> THEN [cost |-> totalCost, shopCount |-> Cardinality(shopsUsed)]
  ELSE LET options == GetOptions(itemToShops, Head(itemIds))
       IN IF options = <<>> THEN GreedyLoop_assign(Tail(itemIds), totalCost, shopsUsed)
          ELSE LET cheapest == CheapestFirst(options, options[1])
               IN GreedyLoop_assign(Tail(itemIds), cheapest.price,
                                    shopsUsed \cup {cheapest.shop})

RECURSIVE GreedyLoop(_, _, _)
\* the loop of getGreedyUpperBound over the remaining itemIds
GreedyLoop(itemIds, totalCost, shopsUsed) ==
  IF itemIds = <<>> THEN [cost |-> totalCost, shopCount |-> Cardinality(shopsUsed)]
  ELSE LET options == GetOptions(itemToShops, Head(itemIds))
       IN IF options = <<>> THEN GreedyLoop(Tail(itemIds), totalCost, shopsUsed)
          ELSE LET cheapest == CheapestFirst(options, options[1])
               IN GreedyLoop(Tail(itemIds), totalCost + cheapest.price,
                             shopsUsed \cup {cheapest.shop})

getGreedyUpperBound(itemIds) == GreedyLoop(itemIds, 0, {})

\* mutant of MinPrice: the price of the first listed option
MinPrice_first(opts) == opts[1].price

RECURSIVE MinPrice(_)
\* Math.min(...options.map(o => o.price)) of a non-empty list
MinPrice(opts) ==
  IF Len(opts) = 1 THEN opts[1].price ELSE Min(opts[1].price, MinPrice(Tail(opts)))

RECURSIVE getLowerBound(_, _)
\* startIndex is 0-based, as in the source
getLowerBound(itemIds, startIndex) ==
  IF startIndex >= Len(itemIds) THEN 0
  ELSE LET options == GetOptions(itemToShops, itemIds[startIndex + 1])
       IN (IF options = <<>> THEN 0 ELSE MinPrice(options))
          + getLowerBound(itemIds, startIndex + 1)

(* ---------- bestPriceDPOptimized.ts: search engine ---------- *)

\* writes is a history of the pairs <<bestCost, bestShopCount>> assigned so far, in
\* order: by the greedy seed, then by dp's terminal check
dpStateInit ==
  [memo |-> <<>>, bestCost |-> Infinity, bestShopCount |-> Infinity,
   statesExplored |-> 0, statesPruned |-> 0, memoHits |-> 0, writes |-> <<>>]

RECURSIVE dp(_, _, _, _)
RECURSIVE dpOptions(_, _, _, _, _, _)

\* the option loop of dp: sortedOptions from position k on, bestFutureCost so far
dpOptions(sortedOptions, itemIndex, shopsBitmask, currentCost, bestFutureCost, st) ==
  IF sortedOptions = <<>> THEN [ret |-> bestFutureCost, st |-> st]
  ELSE LET option == Head(sortedOptions)
           optionCost == currentCost + option.price
       IN IF optionCost >= st.bestCost
          THEN dpOptions(Tail(sortedOptions), itemIndex, shopsBitmask, currentCost,
                         bestFutureCost, [st EXCEPT !.statesPruned = @ + 1])
          ELSE LET newShopsBitmask == BitOr(shopsBitmask, Shl1(option.shopIndex))
                   r == dp(itemIndex + 1, newShopsBitmask, optionCost, st)
               IN dpOptions(Tail(sortedOptions), itemIndex, shopsBitmask, currentCost,
                            IF r.ret = Infinity THEN bestFutureCost
                            ELSE Min(bestFutureCost, r.ret),
                            r.st)

\* mutant of dp: the lower-bound cut is strict (>), so a state whose bound equals
\* bestCost is expanded
dp_strictBound(itemIndex, shopsBitmask, currentCost, st) ==
  IF currentCost >= st.bestCost
  THEN [ret |-> Infinity, st |-> [st EXCEPT !.statesPruned = @ + 1]]
  ELSE IF itemIndex = N
  THEN LET shopCount == popcount(shopsBitmask)
       IN [ret |-> 0,
           st |-> IF \/ currentCost < st.bestCost
                     \/ (currentCost = st.bestCost /\ shopCount < st.bestShopCount)
                  THEN [st EXCEPT !.bestCost = currentCost, !.bestShopCount = shopCount,
                                  !.writes = Append(@, <<currentCost, shopCount>>)]
                  ELSE st]
  ELSE LET key == stateKey(itemIndex, shopsBitmask)
       IN IF key \in DOMAIN st.memo
          THEN [ret |-> st.memo[key], st |-> [st EXCEPT !.memoHits = @ + 1]]
          ELSE LET st1 == [st EXCEPT !.statesExplored = @ + 1]
                   options == GetOptions(itemToShops, selectedItemIds[itemIndex + 1])
               IN IF options = <<>>
                  THEN [ret |-> Infinity,
                        st |-> [st1 EXCEPT !.memo = MemoSet(@, key, Infinity)]]
                  ELSE LET lowerBound == getLowerBound(selectedItemIds, itemIndex)
                       IN IF currentCost + lowerBound > st1.bestCost
                          THEN [ret |-> Infinity,
                                st |-> [st1 EXCEPT !.statesPruned = @ + 1,
                                                   !.memo = MemoSet(@, key, Infinity)]]
                          ELSE LET r == dpOptions(SortedCopy(options).sorted, itemIndex,
                                                  shopsBitmask, currentCost, Infinity, st1)
                               IN [ret |-> r.ret,
                                   st |-> [r.st EXCEPT !.memo = MemoSet(@, key, r.ret)]]

\* dp(itemIndex, shopsBitmask, currentCost) on dpState st: the returned number and dpState
dp(itemIndex, shopsBitmask, currentCost, st) ==
  IF currentCost >= st.bestCost
  THEN [ret |-> Infinity, st |-> [st EXCEPT !.statesPruned = @ + 1]]
  ELSE IF itemIndex = N
  THEN LET shopCount == popcount(shopsBitmask)
       IN [ret |-> 0,
           st |-> IF \/ currentCost < st.bestCost
                     \/ (currentCost = st.bestCost /\ shopCount < st.bestShopCount)
                  THEN [st EXCEPT !.bestCost = currentCost, !.bestShopCount = shopCount,
                                  !.writes = Append(@, <<currentCost, shopCount>>)]
                  ELSE st]
  ELSE LET key == stateKey(itemIndex, shopsBitmask)
       IN IF key \in DOMAIN st.memo
          THEN [ret |-> st.memo[key], st |-> [st EXCEPT !.memoHits = @ + 1]]
          ELSE LET st1 == [st EXCEPT !.statesExplored = @ + 1]
                   options == GetOptions(itemToShops, selectedItemIds[itemIndex + 1])
               IN IF options = <<>>
                  THEN [ret |-> Infinity,
                        st |-> [st1 EXCEPT !.memo = MemoSet(@, key, Infinity)]]
                  ELSE LET lowerBound == getLowerBound(selectedItemIds, itemIndex)
                       IN IF currentCost + lowerBound >= st1.bestCost
                          THEN [ret |-> Infinity,
                                st |-> [st1 EXCEPT !.statesPruned = @ + 1,
                                                   !.memo = MemoSet(@, key, Infinity)]]
                          ELSE LET r == dpOptions(SortedCopy(options).sorted, itemIndex,
                                                  shopsBitmask, currentCost, Infinity, st1)
                               IN [ret |-> r.ret,
                                   st |-> [r.st EXCEPT !.memo = MemoSet(@, key, r.ret)]]

\* the three pruning rules of dp: the accumulated-cost cut at entry, the lower-bound
\* cut and the per-option cut
PruningRules == {"cost", "lowerBound", "option"}

RECURSIVE dpWith(_, _, _, _, _)
RECURSIVE dpWithOptions(_, _, _, _, _, _, _)

\* mutant of dpWithTerminal: bestCost and bestShopCount are assigned without
\* comparing the candidate with the best so far
dpWithTerminal_unguarded(shopsBitmask, currentCost, st) ==
  LET shopCount == popcount(shopsBitmask)
  IN [st EXCEPT !.bestCost = currentCost, !.bestShopCount = shopCount,
                !.writes = Append(@, <<currentCost, shopCount>>)]

\* mutant of dpWithTerminal: both comparisons are non-strict, so a candidate of equal
\* cost and more shops is also taken
dpWithTerminal_nonStrict(shopsBitmask, currentCost, st) ==
  LET shopCount == popcount(shopsBitmask)
  IN IF currentCost <= st.bestCost
     THEN [st EXCEPT !.bestCost = currentCost, !.bestShopCount = shopCount,
                     !.writes = Append(@, <<currentCost, shopCount>>)]
     ELSE st

\* the terminal check of dp (itemIndex === selectedItemIds.length): the dpState it leaves
dpWithTerminal(shopsBitmask, currentCost, st) ==
  LET shopCount == popcount(shopsBitmask)
  IN IF \/ currentCost < st.bestCost
        \/ (currentCost = st.bestCost /\ shopCount < st.bestShopCount)
     THEN [st EXCEPT !.bestCost = currentCost, !.bestShopCount = shopCount,
                     !.writes = Append(@, <<currentCost, shopCount>>)]
     ELSE st

\* OPTIMIZATION_RESULTS.md, Price-Sorted Options: the loop as printed there leaves at
\* the first option that fails the test (statesPruned++; break) instead of skipping it
OptionBreaks(rules, optionCost, st) ==
  "optionBreak" \in rules /\ optionCost >= st.bestCost

\* the option loop of dp with only the pruning rules in `rules` enabled
dpWithOptions(rules, sortedOptions, itemIndex, shopsBitmask, currentCost, bestFutureCost, st) ==
  IF sortedOptions = <<>> THEN [ret |-> bestFutureCost, st |-> st]
  ELSE LET option == Head(sortedOptions)
           optionCost == currentCost + option.price
       IN IF "option" \in rules /\ optionCost >= st.bestCost
          THEN dpWithOptions(rules, Tail(sortedOptions), itemIndex, shopsBitmask,
                             currentCost, bestFutureCost,
                             [st EXCEPT !.statesPruned = @ + 1])
          ELSE IF OptionBreaks(rules, optionCost, st)
          THEN [ret |-> bestFutureCost, st |-> [st EXCEPT !.statesPruned = @ + 1]]
          ELSE LET newShopsBitmask == BitOr(shopsBitmask, Shl1(option.shopIndex))
                   r == dpWith(rules, itemIndex + 1, newShopsBitmask, optionCost, st)
               IN dpWithOptions(rules, Tail(sortedOptions), itemIndex, shopsBitmask,
                                currentCost,
                                IF r.ret = Infinity THEN bestFutureCost
                                ELSE Min(bestFutureCost, r.ret),
                                r.st)

\* dp with only the pruning rules in `rules` enabled: dp itself when rules is
\* PruningRules, and dp with the tests of the other rules removed otherwise
dpWith(rules, itemIndex, shopsBitmask, currentCost, st) ==
  IF "cost" \in rules /\ currentCost >= st.bestCost
  THEN [ret |-> Infinity, st |-> [st EXCEPT !.statesPruned = @ + 1]]
  ELSE IF itemIndex = N
  THEN [ret |-> 0, st |-> dpWithTerminal(shopsBitmask, currentCost, st)]
  ELSE LET key == stateKey(itemIndex, shopsBitmask)
       IN IF key \in DOMAIN st.memo
          THEN [ret |-> st.memo[key], st |-> [st EXCEPT !.memoHits = @ + 1]]
          ELSE LET st1 == [st EXCEPT !.statesExplored = @ + 1]
                   options == GetOptions(itemToShops, selectedItemIds[itemIndex + 1])
               IN IF options = <<>>
                  THEN [ret |-> Infinity,
                        st |-> [st1 EXCEPT !.memo = MemoSet(@, key, Infinity)]]
                  ELSE LET lowerBound == getLowerBound(selectedItemIds, itemIndex)
                       IN IF "lowerBound" \in rules /\ currentCost + lowerBound >= st1.bestCost
                          THEN [ret |-> Infinity,
                                st |-> [st1 EXCEPT !.statesPruned = @ + 1,
                                                   !.memo = MemoSet(@, key, Infinity)]]
                          ELSE LET r == dpWithOptions(rules, SortedCopy(options).sorted, itemIndex,
                                                      shopsBitmask, currentCost, Infinity, st1)
                               IN [ret |-> r.ret,
                                   st |-> [r.st EXCEPT !.memo = MemoSet(@, key, r.ret)]]

(* ---------- bestPriceDPOptimized.ts: solution reconstructor ---------- *)

RECURSIVE reconstruct(_, _, _, _, _)
RECURSIVE reconstructOptions(_, _, _, _, _, _)
RECURSIVE reconstructOptions_strict(_, _, _, _, _, _)
RECURSIVE reconstructOptions_noReturn(_, _, _, _, _, _)

\* mutant of reconstructOptions: the return after the recursive call is missing, so the
\* loop goes on to the later options
reconstructOptions_noReturn(sortedOptions, index, mask, cost, sel, cm) ==
  IF sortedOptions = <<>>
  THEN [fault |-> FALSE, selection |-> sel, mask |-> cm, itemToShops |-> itemToShops]
  ELSE LET option == Head(sortedOptions)
           newMask == BitOr(mask, Shl1(option.shopIndex))
           testCost == cost + option.price
           remainingLower == getLowerBound(selectedItemIds, index + 1)
       IN IF 100 * (testCost + remainingLower) <= 100 * dpState.bestCost + 1
          THEN LET r == reconstruct(index + 1, newMask, testCost,
                                    Append(sel, [itemId |-> selectedItemIds[index + 1],
                                                 shop |-> option.shop,
                                                 price |-> option.price]),
                                    newMask)
               IN reconstructOptions_noReturn(Tail(sortedOptions), index, mask, cost,
                                              r.selection, r.mask)
          ELSE reconstructOptions_noReturn(Tail(sortedOptions), index, mask, cost, sel, cm)

\* mutant of reconstructOptions: the test is strict (<) and has no tolerance
reconstructOptions_strict(sortedOptions, index, mask, cost, sel, cm) ==
  IF sortedOptions = <<>>
  THEN [fault |-> FALSE, selection |-> sel, mask |-> cm, itemToShops |-> itemToShops]
  ELSE LET option == Head(sortedOptions)
           newMask == BitOr(mask, Shl1(option.shopIndex))
           testCost == cost + option.price
           remainingLower == getLowerBound(selectedItemIds, index + 1)
       IN IF testCost + remainingLower < dpState.bestCost
          THEN reconstruct(index + 1, newMask, testCost,
                           Append(sel, [itemId |-> selectedItemIds[index + 1],
                                        shop |-> option.shop, price |-> option.price]),
                           newMask)
          ELSE reconstructOptions_strict(Tail(sortedOptions), index, mask, cost, sel, cm)

\* the option loop of reconstruct; falls out of the loop when no option qualifies
reconstructOptions(sortedOptions, index, mask, cost, sel, cm) ==
  IF sortedOptions = <<>>
  THEN [fault |-> FALSE, selection |-> sel, mask |-> cm, itemToShops |-> itemToShops]
  ELSE LET option == Head(sortedOptions)
           newMask == BitOr(mask, Shl1(option.shopIndex))
           testCost == cost + option.price
           remainingLower == getLowerBound(selectedItemIds, index + 1)
       IN \* testCost + remainingLower <= dpState.bestCost + 0.01, in hundredths
          IF 100 * (testCost + remainingLower) <= 100 * dpState.bestCost + 1
          THEN reconstruct(index + 1, newMask, testCost,
                           Append(sel, [itemId |-> selectedItemIds[index + 1],
                                        shop |-> option.shop, price |-> option.price]),
                           newMask)
          ELSE reconstructOptions(Tail(sortedOptions), index, mask, cost, sel, cm)

\* reconstruct(index, mask, cost) on optimalSelection sel and currentMask cm, and the
\* Map itemToShops as the replay leaves it; spreading the undefined options of an
\* unlisted item throws a TypeError
reconstruct(index, mask, cost, sel, cm) ==
  IF index = N
  THEN [fault |-> FALSE, selection |-> sel, mask |-> cm, itemToShops |-> itemToShops]
  ELSE IF selectedItemIds[index + 1] \notin DOMAIN itemToShops
  THEN [fault |-> TRUE, selection |-> sel, mask |-> cm, itemToShops |-> itemToShops]
  ELSE LET itemId == selectedItemIds[index + 1]
           sortedOptions == SortedCopy(itemToShops[itemId])
           r == reconstructOptions(sortedOptions.sorted, index, mask, cost, sel, cm)
       IN [r EXCEPT !.itemToShops = [@ EXCEPT ![itemId] = sortedOptions.array]]

\* mutant of OptResult: shopCount printed from the unused constant of the script,
\* popcount(dpState.bestShopCount), instead of the shops of the selection
OptResult_staleShopCount(sel, st) ==
  [printed |-> TRUE,
   selectedItems |-> [i \in DOMAIN sel |->
                        [id |-> sel[i].itemId, shop |-> sel[i].shop, price |-> sel[i].price]],
   totalCost |-> st.bestCost,
   shopCount |-> popcount(IF st.bestShopCount = Infinity THEN 0 ELSE st.bestShopCount),
   shops |-> ShopsOf(sel)]

\* the Result object of bestPriceDPOptimized.ts (shops kept as the set it lists)
OptResult(sel, st) ==
  [printed |-> TRUE,
   selectedItems |-> [i \in DOMAIN sel |->
                        [id |-> sel[i].itemId, shop |-> sel[i].shop, price |-> sel[i].price]],
   totalCost |-> st.bestCost,
   shopCount |-> IF Len(sel) > 0 THEN Cardinality(ShopsOf(sel)) ELSE 0,
   shops |-> ShopsOf(sel)]

(* ---------- bestPriceDP.ts: memoised dp ---------- *)

\* bestOption = null
NoOption == [none |-> TRUE]

RECURSIVE DP_dp(_, _, _)
RECURSIVE DP_dpOptions(_, _, _, _, _, _, _)

\* the option loop of dp in bestPriceDP.ts, on Map m
DP_dpOptions(options, itemIndex, shopsBitmask, bestOption, bCost, bShopCount, m) ==
  IF options = <<>>
  THEN [bestOption |-> bestOption, bestCost |-> bCost, memo |-> m]
  ELSE LET option == Head(options)
           newShopsBitmask == BitOr(shopsBitmask, Shl1(option.shopIndex))
           r == DP_dp(itemIndex + 1, newShopsBitmask, m)
           futureState == r.ret
       IN IF futureState.cost = Infinity
          THEN DP_dpOptions(Tail(options), itemIndex, shopsBitmask, bestOption, bCost,
                            bShopCount, r.memo)
          ELSE LET totalCost == option.price + futureState.cost
                   shopCount == popcount(newShopsBitmask)
               IN IF \/ totalCost < bCost
                     \/ (totalCost = bCost /\ shopCount < bShopCount)
                  THEN DP_dpOptions(Tail(options), itemIndex, shopsBitmask,
                                    [none |-> FALSE,
                                     itemId |-> selectedItemIds[itemIndex + 1],
                                     shop |-> option.shop, price |-> option.price,
                                     futureState |-> futureState,
                                     newShopsBitmask |-> newShopsBitmask],
                                    totalCost, shopCount, r.memo)
                  ELSE DP_dpOptions(Tail(options), itemIndex, shopsBitmask, bestOption,
                                    bCost, bShopCount, r.memo)

\* mutant of DP_dp: an item without options is skipped (the search goes on with the
\* next item) instead of making the state infeasible
DP_dp_skipMissing(itemIndex, shopsBitmask, m) ==
  IF itemIndex = N
  THEN [ret |-> [cost |-> 0, selection |-> <<>>, shops |-> shopsBitmask], memo |-> m]
  ELSE LET key == stateKey(itemIndex, shopsBitmask)
       IN IF key \in DOMAIN m THEN [ret |-> m[key], memo |-> m]
          ELSE LET options == GetOptions(itemToShops, selectedItemIds[itemIndex + 1])
                   none == [cost |-> Infinity, selection |-> <<>>, shops |-> shopsBitmask]
               IN IF options = <<>>
                  THEN LET r == DP_dp(itemIndex + 1, shopsBitmask, m)
                       IN [ret |-> r.ret, memo |-> MemoSet(r.memo, key, r.ret)]
                  ELSE LET r == DP_dpOptions(options, itemIndex, shopsBitmask, NoOption,
                                             Infinity, Infinity, m)
                       IN IF r.bestOption.none
                          THEN [ret |-> none, memo |-> MemoSet(r.memo, key, none)]
                          ELSE LET res ==
                                     [cost |-> r.bestCost,
                                      selection |->
                                        <<[itemId |-> r.bestOption.itemId,
                                           shop |-> r.bestOption.shop,
                                           price |-> r.bestOption.price]>>
                                        \o r.bestOption.futureState.selection,
                                      shops |-> r.bestOption.newShopsBitmask]
                               IN [ret |-> res, memo |-> MemoSet(r.memo, key, res)]

\* dp(itemIndex, shopsBitmask) of bestPriceDP.ts on Map m: the returned DPState and the Map
DP_dp(itemIndex, shopsBitmask, m) ==
  IF itemIndex = N
  THEN [ret |-> [cost |-> 0, selection |-> <<>>, shops |-> shopsBitmask], memo |-> m]
  ELSE LET key == stateKey(itemIndex, shopsBitmask)
       IN IF key \in DOMAIN m THEN [ret |-> m[key], memo |-> m]
          ELSE LET options == GetOptions(itemToShops, selectedItemIds[itemIndex + 1])
                   none == [cost |-> Infinity, selection |-> <<>>, shops |-> shopsBitmask]
               IN IF options = <<>>
                  THEN [ret |-> none, memo |-> MemoSet(m, key, none)]
                  ELSE LET r == DP_dpOptions(options, itemIndex, shopsBitmask, NoOption,
                                             Infinity, Infinity, m)
                       IN IF r.bestOption.none
                          THEN [ret |-> none, memo |-> MemoSet(r.memo, key, none)]
                          ELSE LET res ==
                                     [cost |-> r.bestCost,
                                      selection |->
                                        <<[itemId |-> r.bestOption.itemId,
                                           shop |-> r.bestOption.shop,
                                           price |-> r.bestOption.price]>>
                                        \o r.bestOption.futureState.selection,
                                      shops |-> r.bestOption.newShopsBitmask]
                               IN [ret |-> res, memo |-> MemoSet(r.memo, key, res)]

\* for (i < shopList.length) if (mask & (1 << i)) shopsUsed.push(shopList[i])
ShopsOfMask(mask) == {ShopNames[k] : k \in {j \in Shops : BitAnd(mask, Shl1(j - 1)) # 0}}

\* the Result object of bestPriceDP.ts
DPResult(r) ==
  [printed |-> TRUE,
   selectedItems |-> [i \in DOMAIN r.selection |->
                        [id |-> r.selection[i].itemId, shop |-> r.selection[i].shop,
                         price |-> r.selection[i].price]],
   totalCost |-> r.cost,
   shopCount |-> popcount(r.shops),
   shops |-> ShopsOfMask(r.shops)]

(* ---------- bestPrice.ts: brute-force backtracking ---------- *)

RECURSIVE backtrack(_, _, _, _, _)
RECURSIVE backtrackOptions(_, _, _, _, _, _)

\* one observation of the history: the shops of currentSelection and the content of
\* shopsUsedSet, at an entry to backtrack or after an undo (pop and delete)
Observed(at, currentSelection, shopsUsedSet) ==
  [at |-> at, selectionShops |-> ShopsOf(currentSelection), shopsUsedSet |-> shopsUsedSet]

\* the option loop of backtrack: push, add, recurse, pop, delete
backtrackOptions(options, index, currentSelection, currentCost, shopsUsedSet, best) ==
  IF options = <<>> THEN [best |-> best, shopsUsedSet |-> shopsUsedSet]
  ELSE LET opt == Head(options)
           r == backtrack(index + 1,
                          Append(currentSelection,
                                 [itemId |-> selectedItemIds[index + 1],
                                  shop |-> opt.shop, price |-> opt.price]),
                          currentCost + opt.price,
                          shopsUsedSet \cup {opt.shop},
                          best)
           undone == r.shopsUsedSet \ {opt.shop}
       IN backtrackOptions(Tail(options), index, currentSelection, currentCost, undone,
                           [r.best EXCEPT
                              !.log = @ \cup {Observed("undo", currentSelection, undone)}])

\* backtrack(index, currentSelection, currentCost, shopsUsedSet) on the globals
\* best = (bestCost, bestShopCount, bestSelection) and the history log; returns them
\* and the shared Set
backtrack(index, currentSelection, currentCost, shopsUsedSet, best) ==
  LET entered ==
        [best EXCEPT !.log = @ \cup {Observed("entry", currentSelection, shopsUsedSet)}]
  IN IF index = N
     THEN LET shopCount == Cardinality(shopsUsedSet)
          IN [best |-> IF \/ currentCost < best.bestCost
                          \/ (currentCost = best.bestCost
                                /\ shopCount < best.bestShopCount)
                       THEN [entered EXCEPT !.bestCost = currentCost,
                                            !.bestShopCount = shopCount,
                                            !.bestSelection = currentSelection]
                       ELSE entered,
              shopsUsedSet |-> shopsUsedSet]
     ELSE LET options == GetOptions(itemToShops, selectedItemIds[index + 1])
          IN IF options = <<>> THEN [best |-> entered, shopsUsedSet |-> shopsUsedSet]
             ELSE backtrackOptions(options, index, currentSelection, currentCost,
                                   shopsUsedSet, entered)

\* the Result object of bestPrice.ts
BFResult(sel, cost, shopCount) ==
  [printed |-> TRUE,
   selectedItems |-> [i \in DOMAIN sel |->
                        [id |-> sel[i].itemId, shop |-> sel[i].shop, price |-> sel[i].price]],
   totalCost |-> cost,
   shopCount |-> shopCount,
   shops |-> ShopsOf(sel)]

(* ---------- benchmark: bruteForce and dynamicProgramming ---------- *)

RECURSIVE bruteForce_backtrack(_, _, _, _, _)
RECURSIVE bruteForce_options(_, _, _, _, _, _)

\* the option loop of backtrack inside bruteForce(items): add, recurse, delete
bruteForce_options(options, items, index, currentCost, shopsUsedSet, best) ==
  IF options = <<>> THEN [best |-> best, shopsUsedSet |-> shopsUsedSet]
  ELSE LET opt == Head(options)
           r == bruteForce_backtrack(items, index + 1, currentCost + opt.price,
                                     shopsUsedSet \cup {opt.shop}, best)
       IN bruteForce_options(Tail(options), items, index, currentCost,
                             r.shopsUsedSet \ {opt.shop}, r.best)

\* backtrack(index, currentCost, shopsUsedSet) inside bruteForce(items)
bruteForce_backtrack(items, index, currentCost, shopsUsedSet, best) ==
  IF index = Len(items)
  THEN LET shopCount == Cardinality(shopsUsedSet)
       IN [best |-> IF \/ currentCost < best.bestCost
                       \/ (currentCost = best.bestCost /\ shopCount < best.bestShopCount)
                    THEN [bestCost |-> currentCost, bestShopCount |-> shopCount]
                    ELSE best,
           shopsUsedSet |-> shopsUsedSet]
  ELSE LET options == GetOptions(itemToShops, items[index + 1])
       IN IF options = <<>> THEN [best |-> best, shopsUsedSet |-> shopsUsedSet]
          ELSE bruteForce_options(options, items, index, currentCost, shopsUsedSet, best)

\* bruteForce(items).cost
bruteForce(items) ==
  bruteForce_backtrack(items, 0, 0, {},
                       [bestCost |-> Infinity, bestShopCount |-> Infinity]).best.bestCost

RECURSIVE dynamicProgramming_dp(_, _, _, _)
RECURSIVE dynamicProgramming_options(_, _, _, _, _, _, _)
RECURSIVE dynamicProgramming_options_firstWins(_, _, _, _, _, _, _)

\* mutant of dynamicProgramming_options: only the first feasible option is ever taken
\* (the comparison with the best so far is lost)
dynamicProgramming_options_firstWins(options, items, itemIndex, shopsBitmask, bCost, bShopCount, m) ==
  IF options = <<>> THEN [bestCost |-> bCost, memo |-> m]
  ELSE LET option == Head(options)
           newShopsBitmask == BitOr(shopsBitmask, Shl1(option.shopIndex))
           r == dynamicProgramming_dp(items, itemIndex + 1, newShopsBitmask, m)
           futureCost == r.ret
       IN IF futureCost = Infinity \/ bCost # Infinity
          THEN dynamicProgramming_options_firstWins(Tail(options), items, itemIndex,
                                                    shopsBitmask, bCost, bShopCount, r.memo)
          ELSE dynamicProgramming_options_firstWins(Tail(options), items, itemIndex,
                                                    shopsBitmask, option.price + futureCost,
                                                    popcount(newShopsBitmask), r.memo)

\* the option loop of dp inside dynamicProgramming(items)
dynamicProgramming_options(options, items, itemIndex, shopsBitmask, bCost, bShopCount, m) ==
  IF options = <<>> THEN [bestCost |-> bCost, memo |-> m]
  ELSE LET option == Head(options)
           newShopsBitmask == BitOr(shopsBitmask, Shl1(option.shopIndex))
           r == dynamicProgramming_dp(items, itemIndex + 1, newShopsBitmask, m)
           futureCost == r.ret
       IN IF futureCost = Infinity
          THEN dynamicProgramming_options(Tail(options), items, itemIndex, shopsBitmask,
                                          bCost, bShopCount, r.memo)
          ELSE LET totalCost == option.price + futureCost
                   shopCount == popcount(newShopsBitmask)
               IN IF \/ totalCost < bCost
                     \/ (totalCost = bCost /\ shopCount < bShopCount)
                  THEN dynamicProgramming_options(Tail(options), items, itemIndex,
                                                  shopsBitmask, totalCost, shopCount, r.memo)
                  ELSE dynamicProgramming_options(Tail(options), items, itemIndex,
                                                  shopsBitmask, bCost, bShopCount, r.memo)

\* dp(itemIndex, shopsBitmask) inside dynamicProgramming(items), on its Map m
dynamicProgramming_dp(items, itemIndex, shopsBitmask, m) ==
  IF itemIndex = Len(items) THEN [ret |-> 0, memo |-> m]
  ELSE LET key == stateKey(itemIndex, shopsBitmask)
       IN IF key \in DOMAIN m THEN [ret |-> m[key], memo |-> m]
          ELSE LET options == GetOptions(itemToShops, items[itemIndex + 1])
               IN IF options = <<>>
                  THEN [ret |-> Infinity, memo |-> MemoSet(m, key, Infinity)]
                  ELSE LET r == dynamicProgramming_options(options, items, itemIndex,
                                                           shopsBitmask, Infinity, Infinity, m)
                       IN [ret |-> r.bestCost, memo |-> MemoSet(r.memo, key, r.bestCost)]

\* dynamicProgramming(items).cost
dynamicProgramming(items) == dynamicProgramming_dp(items, 0, 0, <<>>).ret

\* Math.abs(bfResult.cost - dpResult.cost) > 0.1; Infinity - Infinity is NaN, and
\* NaN > 0.1 is false
ResultsDiffer(bfCost, dpCost) ==
  IF bfCost = Infinity /\ dpCost = Infinity THEN FALSE
  ELSE IF bfCost = Infinity \/ dpCost = Infinity THEN TRUE
  ELSE 10 * (IF bfCost >= dpCost THEN bfCost - dpCost ELSE dpCost - bfCost) > 1

(* ---------- README.md, benchmarkOptimized: dpStandard and dpOptimized ---------- *)

\* a + b of two JavaScript numbers that are integers or Infinity
Plus(a, b) == IF a = Infinity \/ b = Infinity THEN Infinity ELSE a + b

RECURSIVE dpStandard_dp(_, _, _, _)
RECURSIVE dpStandard_options(_, _, _, _, _, _)

\* the option loop of dp inside dpStandard(items)
dpStandard_options(options, items, itemIndex, shopsBitmask, bCost, m) ==
  IF options = <<>> THEN [bestCost |-> bCost, memo |-> m]
  ELSE LET option == Head(options)
           newShopsBitmask == BitOr(shopsBitmask, Shl1(option.shopIndex))
           r == dpStandard_dp(items, itemIndex + 1, newShopsBitmask, m)
           futureCost == r.ret
       IN IF futureCost = Infinity
          THEN dpStandard_options(Tail(options), items, itemIndex, shopsBitmask,
                                  bCost, r.memo)
          ELSE dpStandard_options(Tail(options), items, itemIndex, shopsBitmask,
                                  Min(bCost, option.price + futureCost), r.memo)

\* dp(itemIndex, shopsBitmask) inside dpStandard(items), on its Map m
dpStandard_dp(items, itemIndex, shopsBitmask, m) ==
  IF itemIndex = Len(items) THEN [ret |-> 0, memo |-> m]
  ELSE LET key == stateKey(itemIndex, shopsBitmask)
       IN IF key \in DOMAIN m THEN [ret |-> m[key], memo |-> m]
          ELSE LET options == GetOptions(itemToShops, items[itemIndex + 1])
               IN IF options = <<>>
                  THEN [ret |-> Infinity, memo |-> MemoSet(m, key, Infinity)]
                  ELSE LET r == dpStandard_options(options, items, itemIndex,
                                                   shopsBitmask, Infinity, m)
                       IN [ret |-> r.bestCost, memo |-> MemoSet(r.memo, key, r.bestCost)]

\* dpStandard(items).cost
dpStandard(items) == dpStandard_dp(items, 0, 0, <<>>).ret

RECURSIVE dpOptimized_greedy(_, _)
\* the greedy loop of dpOptimized: bestCostGlobal += Math.min(...prices) for each item
\* that has options
dpOptimized_greedy(items, bestCostGlobal) ==
  IF items = <<>> THEN bestCostGlobal
  ELSE LET options == GetOptions(itemToShops, Head(items))
       IN dpOptimized_greedy(Tail(items),
                             IF options = <<>> THEN bestCostGlobal
                             ELSE Plus(bestCostGlobal, MinPrice(options)))

RECURSIVE dpOptimized_getLowerBound(_, _)
\* getLowerBound(startIndex) inside dpOptimized(items); startIndex is 0-based
dpOptimized_getLowerBound(items, startIndex) ==
  IF startIndex >= Len(items) THEN 0
  ELSE LET options == GetOptions(itemToShops, items[startIndex + 1])
       IN (IF options = <<>> THEN 0 ELSE MinPrice(options))
          + dpOptimized_getLowerBound(items, startIndex + 1)

RECURSIVE dpOptimized_dp(_, _, _, _, _)
RECURSIVE dpOptimized_options(_, _, _, _, _, _, _)

\* the option loop of dp inside dpOptimized(items); g is [memo, bestCostGlobal]
dpOptimized_options(sortedOptions, items, itemIndex, shopsBitmask, currentCost, bCost, g) ==
  IF sortedOptions = <<>> THEN [ret |-> bCost, g |-> g]
  ELSE LET option == Head(sortedOptions)
           optionCost == currentCost + option.price
       IN IF optionCost >= g.bestCostGlobal
          THEN dpOptimized_options(Tail(sortedOptions), items, itemIndex, shopsBitmask,
                                   currentCost, bCost, g)
          ELSE LET newShopsBitmask == BitOr(shopsBitmask, Shl1(option.shopIndex))
                   r == dpOptimized_dp(items, itemIndex + 1, newShopsBitmask, optionCost, g)
               IN dpOptimized_options(Tail(sortedOptions), items, itemIndex, shopsBitmask,
                                      currentCost,
                                      IF r.ret = Infinity THEN bCost
                                      ELSE Min(bCost, option.price + r.ret),
                                      r.g)

\* dp(itemIndex, shopsBitmask, currentCost) inside dpOptimized(items)
dpOptimized_dp(items, itemIndex, shopsBitmask, currentCost, g) ==
  IF currentCost >= g.bestCostGlobal THEN [ret |-> Infinity, g |-> g]
  ELSE IF itemIndex = Len(items)
  THEN [ret |-> 0, g |-> [g EXCEPT !.bestCostGlobal = Min(@, currentCost)]]
  ELSE LET key == stateKey(itemIndex, shopsBitmask)
       IN IF key \in DOMAIN g.memo THEN [ret |-> g.memo[key], g |-> g]
          ELSE IF currentCost + dpOptimized_getLowerBound(items, itemIndex)
                    >= g.bestCostGlobal
          THEN [ret |-> Infinity, g |-> [g EXCEPT !.memo = MemoSet(@, key, Infinity)]]
          ELSE LET options == GetOptions(itemToShops, items[itemIndex + 1])
               IN IF options = <<>>
                  THEN [ret |-> Infinity,
                        g |-> [g EXCEPT !.memo = MemoSet(@, key, Infinity)]]
                  ELSE LET r == dpOptimized_options(SortByPrice(options), items, itemIndex,
                                                    shopsBitmask, currentCost, Infinity, g)
                       IN [ret |-> r.ret,
                           g |-> [r.g EXCEPT !.memo = MemoSet(@, key, r.ret)]]

\* mutant of dpOptimized: the greedy sum starts from 0, so bestCostGlobal is the
\* greedy total instead of staying Infinity
dpOptimized_zeroSeed(items) ==
  LET ceiling == dpOptimized_greedy(items, 0)
      r == dpOptimized_dp(items, 0, 0, 0, [memo |-> <<>>, bestCostGlobal |-> ceiling])
  IN [ret |-> r.ret, g |-> r.g, ceiling |-> ceiling]

\* dpOptimized(items): the cost returned by dp(0, 0, 0), the Map and bestCostGlobal it
\* leaves, and bestCostGlobal as it was after the greedy loop (ceiling);
\* let bestCostGlobal = Infinity precedes the greedy loop
dpOptimized(items) ==
  LET ceiling == dpOptimized_greedy(items, Infinity)
      r == dpOptimized_dp(items, 0, 0, 0, [memo |-> <<>>, bestCostGlobal |-> ceiling])
  IN [ret |-> r.ret, g |-> r.g, ceiling |-> ceiling]

(* ---------- inputs ---------- *)

Cell == (0..MaxPrice) \cup {NoOffer}

Offers(sd) == {<<k, id>> \in Shops \X ItemIds : sd[k][id] # NoOffer}

\* the enumerated catalogs
Catalogs == {sd \in [Shops -> [ItemIds -> Cell]] : Cardinality(Offers(sd)) <= MaxOffers}

\* a solve reads the catalog only through itemToShops.get of a requested item, so the
\* catalogs enumerated for a request list no other item (a requested item may still be
\* listed by no shop)
CatalogsFor(itemIds) ==
  {sd \in Catalogs :
     \A k \in Shops, id \in ItemIds :
       sd[k][id] # NoOffer => \E i \in DOMAIN itemIds : itemIds[i] = id}

\* the requested sequences: item identifiers are opaque to every script (they are
\* only compared and looked up), so with every catalog enumerated the requests
\* <<A>>, <<A, B>>, ... stand for all sequences of distinct identifiers
Requests == {SubSeq(ItemOrder, 1, n) : n \in 1..Len(ItemOrder)}

\* the worked scenario of the specification: V1 = {A:100, B:50}, V2 = {A:90, B:60}
ScenarioCatalog ==
  [k \in Shops |->
     [id \in ItemIds |->
        IF k = 1 /\ id = "A" THEN 100
        ELSE IF k = 1 /\ id = "B" THEN 50
        ELSE IF k = 2 /\ id = "A" THEN 90
        ELSE IF k = 2 /\ id = "B" THEN 60
        ELSE NoOffer]]

ScenarioRequest == <<"A", "B">>

(* ---------- script front end: index build, item count, pickRandomItems ---------- *)

\* a string is the sequence of its characters
Digits == <<"0", "1", "2", "3", "4", "5", "6", "7", "8", "9">>

IsDigit(c) == \E d \in DOMAIN Digits : Digits[d] = c

DigitValue(c) == (CHOOSE d \in DOMAIN Digits : Digits[d] = c) - 1

AllDigits(chars) == \A i \in DOMAIN chars : IsDigit(chars[i])

RECURSIVE DecimalValue(_, _)
DecimalValue(chars, acc) ==
  IF chars = <<>> THEN acc ELSE DecimalValue(Tail(chars), 10 * acc + DigitValue(Head(chars)))

\* a JavaScript number: NaN, or sign, integer part and the digits after the point
\* (read as a number, so frac = 0 exactly when the value is an integer)
NaN == [nan |-> TRUE, neg |-> FALSE, int |-> 0, frac |-> 0]

\* Number(str) of a string of digits, "-", "." and letters other than e and x:
\* the empty string is 0, an optionally signed decimal literal is its value,
\* anything else is NaN
Number(str) ==
  LET neg == str # <<>> /\ Head(str) = "-"
      body == IF neg THEN Tail(str) ELSE str
      dots == {i \in DOMAIN body : body[i] = "."}
      point == IF dots = {} THEN Len(body) + 1 ELSE CHOOSE i \in dots : TRUE
      intPart == SubSeq(body, 1, point - 1)
      fracPart == SubSeq(body, point + 1, Len(body))
  IN IF str = <<>> THEN [nan |-> FALSE, neg |-> FALSE, int |-> 0, frac |-> 0]
     ELSE IF \/ Cardinality(dots) > 1
             \/ ~AllDigits(intPart) \/ ~AllDigits(fracPart)
             \/ (intPart = <<>> /\ fracPart = <<>>)
     THEN NaN
     ELSE [nan |-> FALSE, neg |-> neg,
           int |-> DecimalValue(intPart, 0), frac |-> DecimalValue(fracPart, 0)]

\* Number.isInteger(x)
IsInteger(x) == ~x.nan /\ x.frac = 0

\* x < 0 (false for NaN and for -0)
IsNegative(x) == ~x.nan /\ x.neg /\ (x.int > 0 \/ x.frac > 0)

\* mutant of IsNonPositive: the test is x < 0, so a count of 0 passes
IsNonPositive_strict(x) == ~x.nan /\ x.neg /\ (x.int > 0 \/ x.frac > 0)

\* x <= 0 (false for NaN)
IsNonPositive(x) == ~x.nan /\ (x.neg \/ (x.int = 0 /\ x.frac = 0))

\* process.argv[2] when no argument is given
Undefined == <<"undefined">>

\* let itemCount = 5
DefaultItemCount == 5

\* the (shop, item) positions of data.shops in the order the two nested loops of the
\* index build visit them
RECURSIVE InLoopOrder(_)
InLoopOrder(positions) ==
  IF positions = {} THEN <<>>
  ELSE LET first == CHOOSE p \in positions :
                      \A q \in positions : p[1] < q[1] \/ (p[1] = q[1] /\ p[2] <= q[2])
       IN <<first>> \o InLoopOrder(positions \ {first})

EntryPositions(entries) ==
  InLoopOrder(UNION {{<<k, j>> : j \in DOMAIN entries[k].items} : k \in DOMAIN entries})

\* shopList after the index build: Object.entries yields every shop name once, so
\* shopNameToIndex.has(shopName) is false at each shop and the k-th shop gets index k - 1
ShopListOf(entries) == [k \in DOMAIN entries |-> entries[k].shopName]

RECURSIVE IndexEntries(_, _, _, _)
\* the body of the inner loop of the index build, run at each position in turn; ix is
\* [itemToShops, allItemIds]; bestPrice.ts keeps no shopIndex
IndexEntries(positions, entries, withIndex, ix) ==
  IF positions = <<>> THEN ix
  ELSE LET k == Head(positions)[1]
           itemObj == entries[k].items[Head(positions)[2]]
           id == itemObj.id
           price == Number(itemObj.priceStr)
           option == IF withIndex
                     THEN [shop |-> entries[k].shopName, price |-> price,
                           shopIndex |-> k - 1]
                     ELSE [shop |-> entries[k].shopName, price |-> price]
           isNew == id \notin DOMAIN ix.itemToShops
       IN IndexEntries(Tail(positions), entries, withIndex,
                       [itemToShops |->
                          MemoSet(ix.itemToShops, id,
                                  Append(IF isNew THEN <<>> ELSE ix.itemToShops[id], option)),
                        allItemIds |->
                          IF isNew THEN Append(ix.allItemIds, id) ELSE ix.allItemIds])

\* the item ids of the front-end catalogs
LoadItems == <<"A", "B", "C", "D", "E">>

\* the price strings of the front-end catalogs: 1, 0, 12, -1, a, 1a and the empty string
PriceStrings == {<<"1">>, <<"0">>, <<"1", "2">>, <<"-", "1">>, <<"a">>, <<"1", "a">>, <<>>}

\* the command-line arguments: none, and the strings "", 0, 1, 3, 5, 6, -2, 1.5, 2.0,
\* a and 2a
ArgStrings ==
  {Undefined, <<>>, <<"0">>, <<"1">>, <<"3">>, <<"5">>, <<"6">>, <<"-", "2">>,
   <<"1", ".", "5">>, <<"2", ".", "0">>, <<"a">>, <<"2", "a">>}

\* shop V1 lists the first n items at price 1
FirstShop(n) ==
  [shopName |-> "V1",
   items |-> [i \in 1..n |-> [id |-> LoadItems[i], priceStr |-> <<"1">>]]]

\* shop V2 lists item A at the price string str
SecondShop(str) == [shopName |-> "V2", items |-> <<[id |-> "A", priceStr |-> str]>>]

\* the number of shops of the wide catalog
WideShops == 33

\* V1 .. V33, where only the first and the last shop list anything (item A)
WideCatalog ==
  [k \in 1..WideShops |->
     [shopName |-> "V" \o ToString(k),
      items |-> IF k \in {1, WideShops}
                THEN <<[id |-> "A", priceStr |-> <<"1">>]>> ELSE <<>>]]

\* data.shops as parsed from shops.json: the shops in key order, each with its list
\* of {id: priceStr} objects
RawCatalogs ==
  {<<FirstShop(n)>> : n \in 0..Len(LoadItems)}
    \cup {<<FirstShop(n), SecondShop(str)>> : n \in 0..Len(LoadItems), str \in PriceStrings}
    \cup {WideCatalog}

(* ---------- bestPriceDPOptimized.ts as a state machine ---------- *)

\* nothing of a solve has run
SolveInit ==
  /\ dpState = dpStateInit
  /\ optimalSelection = <<>>
  /\ currentMask = 0
  /\ memo = <<>>
  /\ dpResult = NoResult
  /\ pop = NoResult
  /\ bestCost = Infinity
  /\ bestShopCount = Infinity
  /\ bestSelection = <<>>
  /\ shopsUsedLog = {}
  /\ bench = NoResult
  /\ result = NoResult

\* the state in which a solve starts: the index is built and the request is chosen
InitData ==
  /\ \/ selectedItemIds \in Requests /\ shopsData \in CatalogsFor(selectedItemIds)
     \/ selectedItemIds = ScenarioRequest /\ shopsData = ScenarioCatalog
  /\ itemToShops = BuildItemToShops(shopsData)
  /\ shopList = ShopNames
  /\ allItemIds = SelectSeq(ItemOrder, LAMBDA id : id \in DOMAIN itemToShops)
  /\ arg = <<Digits[N + 1]>>
  /\ itemCount = N
  /\ used = {selectedItemIds[i] : i \in 1..N}
  /\ pc = "start"
  /\ dpState = dpStateInit
  /\ optimalSelection = <<>>
  /\ currentMask = 0
  /\ memo = <<>>
  /\ dpResult = NoResult
  /\ pop = NoResult
  /\ bestCost = Infinity
  /\ bestShopCount = Infinity
  /\ bestSelection = <<>>
  /\ shopsUsedLog = {}
  /\ bench = NoResult
  /\ result = NoResult

Init == script = "bestPriceDPOptimized" /\ InitData

\* greedyBound = getGreedyUpperBound(selectedItemIds); seed bestCost and bestShopCount
GreedySeed ==
  /\ script = "bestPriceDPOptimized" /\ pc = "start"
  /\ LET greedyBound == getGreedyUpperBound(selectedItemIds)
     IN dpState' = [dpState EXCEPT !.bestCost = greedyBound.cost,
                                   !.bestShopCount = greedyBound.shopCount,
                                   !.writes = <<<<greedyBound.cost, greedyBound.shopCount>>>>]
  /\ pc' = "seeded"
  /\ UNCHANGED <<inputs, optimalSelection, currentMask, dpVars, bfVars, bench, result>>

\* dp(0, 0, 0)
Search ==
  /\ script = "bestPriceDPOptimized" /\ pc = "seeded"
  /\ dpState' = dp(0, 0, 0, dpState).st
  /\ pc' = "searched"
  /\ UNCHANGED <<inputs, optimalSelection, currentMask, dpVars, bfVars, bench, result>>

\* the infeasibility exit, else the replay and the printed Result
Report ==
  /\ script = "bestPriceDPOptimized" /\ pc = "searched"
  /\ IF dpState.bestCost = Infinity
     THEN /\ pc' = "infeasible"
          /\ UNCHANGED <<itemToShops, optimalSelection, currentMask, result>>
     ELSE LET r == reconstruct(0, 0, 0, <<>>, 0)
          IN /\ optimalSelection' = r.selection
             /\ currentMask' = r.mask
             /\ itemToShops' = r.itemToShops
             /\ IF r.fault
                THEN pc' = "fault" /\ UNCHANGED result
                ELSE pc' = "done" /\ result' = OptResult(r.selection, dpState)
  /\ UNCHANGED <<script, shopsData, selectedItemIds, frontEnd, dpState, dpVars, bfVars,
                 bench>>

Next == GreedySeed \/ Search \/ Report

Spec == Init /\ [][Next]_vars

(* ---------- bestPriceDPOptimized.ts with pruning rules disabled ---------- *)

\* dp(0, 0, 0) with any subset of the three pruning rules enabled
SearchWith ==
  /\ script = "bestPriceDPOptimized" /\ pc = "seeded"
  /\ \E rules \in SUBSET PruningRules : dpState' = dpWith(rules, 0, 0, 0, dpState).st
  /\ pc' = "searched"
  /\ UNCHANGED <<catalog, frontEnd, optimalSelection, currentMask, dpVars, bfVars, bench,
                 result>>

NextWith == GreedySeed \/ SearchWith

SpecWith == Init /\ [][NextWith]_vars

(* ---------- the front end of a script as a state machine ---------- *)

\* shops.json is parsed; here shopsData is data.shops as read, with its price strings
InitLoad ==
  /\ script \in {"bestPriceDPOptimized", "bestPrice"}
  /\ shopsData \in RawCatalogs
  /\ arg \in ArgStrings
  /\ itemToShops = <<>>
  /\ shopList = <<>>
  /\ allItemIds = <<>>
  /\ itemCount = DefaultItemCount
  /\ selectedItemIds = <<>>
  /\ used = {}
  /\ pc = "load"
  /\ SolveInit

solveVars == <<optVars, dpVars, bfVars, bench, result>>

\* step 2: build itemToShops, shopList and allItemIds
BuildIndex ==
  /\ pc = "load"
  /\ LET ix == IndexEntries(EntryPositions(shopsData), shopsData, script # "bestPrice",
                            [itemToShops |-> <<>>, allItemIds |-> <<>>])
     IN /\ itemToShops' = ix.itemToShops
        /\ allItemIds' = ix.allItemIds
  /\ shopList' = IF script # "bestPrice" THEN ShopListOf(shopsData) ELSE shopList
  /\ pc' = "args"
  /\ UNCHANGED <<script, shopsData, selectedItemIds, arg, itemCount, used, solveVars>>

\* step 3: read the desired number of items; process.exit(1) on an invalid count
ReadItemCount ==
  /\ pc = "args"
  /\ LET parsed == Number(arg)
         invalid == arg # Undefined /\ (~IsInteger(parsed) \/ IsNonPositive(parsed))
         count == IF arg # Undefined THEN parsed.int ELSE itemCount
     IN IF invalid THEN pc' = "exit" /\ UNCHANGED itemCount
        ELSE /\ itemCount' = count
             /\ pc' = IF count > Len(allItemIds) THEN "exit" ELSE "pick"
  /\ UNCHANGED <<catalog, shopList, allItemIds, arg, used, solveVars>>

\* pickRandomItems: the loop test
PickMore == Len(selectedItemIds) < itemCount /\ Cardinality(used) < Len(allItemIds)

\* mutant of PickItem: the drawn id is added without the test !used.has(id)
PickItem_noUsedTest ==
  /\ pc = "pick" /\ PickMore
  /\ \E idx \in 0..(Len(allItemIds) - 1) :
       LET id == allItemIds[idx + 1]
       IN used' = used \cup {id} /\ selectedItemIds' = Append(selectedItemIds, id)
  /\ UNCHANGED <<script, shopsData, itemToShops, shopList, allItemIds, arg, itemCount, pc,
                 solveVars>>

\* one iteration of the loop of pickRandomItems, selectedItemIds being its result
PickItem ==
  /\ pc = "pick" /\ PickMore
  /\ \E idx \in 0..(Len(allItemIds) - 1) :
       LET id == allItemIds[idx + 1]
       IN IF id \notin used
          THEN used' = used \cup {id} /\ selectedItemIds' = Append(selectedItemIds, id)
          ELSE UNCHANGED <<used, selectedItemIds>>
  /\ UNCHANGED <<script, shopsData, itemToShops, shopList, allItemIds, arg, itemCount, pc,
                 solveVars>>

\* pickRandomItems returns; the solve starts
PickDone ==
  /\ pc = "pick" /\ ~PickMore
  /\ pc' = "start"
  /\ UNCHANGED <<catalog, frontEnd, solveVars>>

NextLoad == BuildIndex \/ ReadItemCount \/ PickItem \/ PickDone

SpecLoad == InitLoad /\ [][NextLoad]_vars

\* pickRandomItems runs on, and Math.random does not avoid the unused indexes forever:
\* while the loop runs, an iteration that draws an unused id eventually happens
FairLoad == WF_vars(PickItem) /\ WF_vars(PickDone)

SpecLoadFair == SpecLoad /\ FairLoad

(* ---------- bestPriceDP.ts as a state machine ---------- *)

InitDP == script = "bestPriceDP" /\ InitData

\* dpResult = dp(0, 0)
SolveDP ==
  /\ script = "bestPriceDP" /\ pc = "start"
  /\ LET r == DP_dp(0, 0, memo)
     IN dpResult' = r.ret /\ memo' = r.memo
  /\ UNCHANGED pop
  /\ pc' = "searched"
  /\ UNCHANGED <<inputs, optVars, bfVars, bench, result>>

\* the infeasibility exit, else the printed Result
ReportDP ==
  /\ script = "bestPriceDP" /\ pc = "searched"
  /\ IF dpResult.cost = Infinity
     THEN pc' = "infeasible" /\ UNCHANGED result
     ELSE pc' = "done" /\ result' = DPResult(dpResult)
  /\ UNCHANGED <<inputs, optVars, dpVars, bfVars, bench>>

NextDP == SolveDP \/ ReportDP

SpecDP == InitDP /\ [][NextDP]_vars

(* ---------- popcount as a state machine ---------- *)

\* the largest number of shop indexes OR-ed into one mask
MaxShopIndexes == 2

\* the number of iterations of popcount's loop that are followed
MaxIterations == 40

RECURSIVE IndexSets(_)
\* the sets of at most k shop indexes within 0..31
IndexSets(k) ==
  IF k = 0 THEN {{}}
  ELSE IndexSets(k - 1)
         \cup {S \cup {shopIndex} : S \in IndexSets(k - 1),
                                   shopIndex \in 0..(Int32Bits - 1)}

\* a mask is about to be built from a set of shop indexes; no script data is involved
InitPop ==
  /\ script = "bestPriceDP"
  /\ shopsData = <<>>
  /\ itemToShops = <<>>
  /\ selectedItemIds = <<>>
  /\ shopList = <<>>
  /\ allItemIds = <<>>
  /\ arg = Undefined
  /\ itemCount = DefaultItemCount
  /\ used = {}
  /\ dpState = dpStateInit
  /\ optimalSelection = <<>>
  /\ currentMask = 0
  /\ memo = <<>>
  /\ dpResult = NoResult
  /\ bestCost = Infinity
  /\ bestShopCount = Infinity
  /\ bestSelection = <<>>
  /\ shopsUsedLog = {}
  /\ bench = NoResult
  /\ result = NoResult
  /\ \E shopIndexes \in IndexSets(MaxShopIndexes) :
       pop = [shopIndexes |-> shopIndexes, pending |-> shopIndexes, n |-> {},
              count |-> 0, iterations |-> 0]
  /\ pc = "mask"

\* shopsBitmask | (1 << option.shopIndex), for one more shop index
OrShopIndex ==
  /\ pc = "mask" /\ pop.pending # {}
  /\ \E shopIndex \in pop.pending :
       pop' = [pop EXCEPT !.n = Int32Or(@, Int32Shl1(shopIndex)),
                          !.pending = @ \ {shopIndex}]
  /\ UNCHANGED <<inputs, pc, optVars, memo, dpResult, bfVars, bench, result>>

\* popcount(n) is called: let count = 0
PopcountCall ==
  /\ pc = "mask" /\ pop.pending = {}
  /\ pop' = [pop EXCEPT !.count = 0]
  /\ pc' = "loop"
  /\ UNCHANGED <<inputs, optVars, memo, dpResult, bfVars, bench, result>>

\* one iteration of while (n): count += n & 1; n >>= 1
PopcountStep ==
  /\ pc = "loop" /\ pop.n # {} /\ pop.iterations < MaxIterations
  /\ pop' = [pop EXCEPT !.count = @ + Int32And1(pop.n), !.n = Int32Sar1(@),
                        !.iterations = @ + 1]
  /\ UNCHANGED <<inputs, pc, optVars, memo, dpResult, bfVars, bench, result>>

\* n is 0: return count
PopcountReturn ==
  /\ pc = "loop" /\ pop.n = {}
  /\ pc' = "returned"
  /\ UNCHANGED <<inputs, optVars, dpVars, bfVars, bench, result>>

NextPop == OrShopIndex \/ PopcountCall \/ PopcountStep \/ PopcountReturn

SpecPop == InitPop /\ [][NextPop]_vars

(* ---------- bestPrice.ts as a state machine ---------- *)

InitBF == script = "bestPrice" /\ InitData

\* backtrack(0, [], 0, new Set())
Backtrack ==
  /\ script = "bestPrice" /\ pc = "start"
  /\ LET r == backtrack(0, <<>>, 0, {},
                        [bestCost |-> bestCost, bestShopCount |-> bestShopCount,
                         bestSelection |-> bestSelection, log |-> shopsUsedLog])
     IN /\ bestCost' = r.best.bestCost
        /\ bestShopCount' = r.best.bestShopCount
        /\ bestSelection' = r.best.bestSelection
        /\ shopsUsedLog' = r.best.log
  /\ pc' = "searched"
  /\ UNCHANGED <<inputs, optVars, dpVars, bench, result>>

\* the 'Could not find a solution' exit, else the printed Result
ReportBF ==
  /\ script = "bestPrice" /\ pc = "searched"
  /\ IF Len(bestSelection) = 0
     THEN pc' = "infeasible" /\ UNCHANGED result
     ELSE pc' = "done" /\ result' = BFResult(bestSelection, bestCost, bestShopCount)
  /\ UNCHANGED <<inputs, optVars, dpVars, bfVars, bench>>

NextBF == Backtrack \/ ReportBF

SpecBF == InitBF /\ [][NextBF]_vars

(* ---------- one test size of the benchmark as a state machine ---------- *)

InitBench == script = "benchmark" /\ InitData

\* bfResult = bruteForce(items)
BenchBruteForce ==
  /\ script = "benchmark" /\ pc = "start"
  /\ bench' = [printed |-> FALSE, bfCost |-> bruteForce(selectedItemIds)]
  /\ pc' = "bf"
  /\ UNCHANGED <<inputs, optVars, dpVars, bfVars, result>>

\* dpResult = dynamicProgramming(items), then the status column
BenchDP ==
  /\ script = "benchmark" /\ pc = "bf"
  /\ LET dpCost == dynamicProgramming(selectedItemIds)
     IN bench' = [printed |-> TRUE, bfCost |-> bench.bfCost, dpCost |-> dpCost,
                  differ |-> ResultsDiffer(bench.bfCost, dpCost)]
  /\ pc' = "done"
  /\ UNCHANGED <<inputs, optVars, dpVars, bfVars, result>>

NextBench == BenchBruteForce \/ BenchDP

SpecBench == InitBench /\ [][NextBench]_vars

(* ---------- one test size of benchmarkOptimized as a state machine ---------- *)

InitBenchOpt == script = "benchmarkOptimized" /\ InitData

\* standard = dpStandard(items)
BenchStandard ==
  /\ script = "benchmarkOptimized" /\ pc = "start"
  /\ bench' = [printed |-> FALSE, standardCost |-> dpStandard(selectedItemIds)]
  /\ pc' = "standard"
  /\ UNCHANGED <<inputs, optVars, dpVars, bfVars, result>>

\* optimized = dpOptimized(items), then the status column
BenchOptimized ==
  /\ script = "benchmarkOptimized" /\ pc = "standard"
  /\ LET r == dpOptimized(selectedItemIds)
     IN bench' = [printed |-> TRUE, standardCost |-> bench.standardCost,
                  optimizedCost |-> r.ret, optimizedMemo |-> r.g.memo,
                  ceiling |-> r.ceiling, bestCostGlobal |-> r.g.bestCostGlobal,
                  differ |-> ResultsDiffer(bench.standardCost, r.ret)]
  /\ pc' = "done"
  /\ UNCHANGED <<inputs, optVars, dpVars, bfVars, result>>

NextBenchOpt == BenchStandard \/ BenchOptimized

SpecBenchOpt == InitBenchOpt /\ [][NextBenchOpt]_vars

(* ---------- any of the three scripts that enumerate or memoise ---------- *)

InitScripts == script \in {"bestPrice", "bestPriceDP", "benchmark"} /\ InitData

NextScripts == NextBF \/ NextDP \/ NextBench

SpecScripts == InitScripts /\ [][NextScripts]_vars

(* ---------- reference definitions: exhaustive enumeration ---------- *)

\* every requested item is listed by at least one shop
Feasible == \A i \in 1..N : selectedItemIds[i] \in DOMAIN itemToShops

OptionSet(id) == {GetOptions(itemToShops, id)[j] : j \in DOMAIN GetOptions(itemToShops, id)}

RECURSIVE AssignmentsFrom(_)
\* every way of choosing one option for each of the items i..N (1-based)
AssignmentsFrom(i) ==
  IF i > N THEN {<<>>}
  ELSE {<<o>> \o rest : o \in OptionSet(selectedItemIds[i]), rest \in AssignmentsFrom(i + 1)}

Assignments == AssignmentsFrom(1)

\* the minimum total price over all assignments (of a feasible request)
MinTotalCost ==
  LET totals == {SumPrices(a) : a \in Assignments}
  IN CHOOSE c \in totals : \A d \in totals : c <= d

CheapestAssignments == {a \in Assignments : SumPrices(a) = MinTotalCost}

\* the minimum number of distinct shops among the minimum-cost assignments
MinShopsAtMinCost ==
  CHOOSE n \in {Cardinality(ShopsOf(a)) : a \in CheapestAssignments} :
    \A a \in CheapestAssignments : n <= Cardinality(ShopsOf(a))

\* the cost every exhaustive search must return: Infinity when no assignment exists
MinTotalOrInfinity == IF Feasible THEN MinTotalCost ELSE Infinity

\* the script has left its search and ended (plan printed, infeasible exit or fault)
Ended == pc \in {"done", "infeasible", "fault"}

IsScenario == shopsData = ScenarioCatalog /\ selectedItemIds = ScenarioRequest

(* ---------- claims ---------- *)

\* C1: for every feasible request, the totalCost of bestPriceDPOptimized.ts
\* (dpState.bestCost after the greedy seed and dp(0,0,0), printed as totalCost)
\* equals the minimum total price over all one-option-per-item assignments.
C1_Optimality ==
  (script = "bestPriceDPOptimized" /\ Feasible) =>
    /\ pc \in {"searched", "done"} => dpState.bestCost = MinTotalCost
    /\ pc = "done" => result.totalCost = MinTotalCost

\* a three-item plan was printed where some assignment costs more than the minimum
C1_Witness ==
  /\ script = "bestPriceDPOptimized" /\ pc = "done" /\ Feasible /\ N = 3
  /\ result.totalCost = MinTotalCost /\ MinTotalCost > 0
  /\ \E a \in Assignments : SumPrices(a) > MinTotalCost

\* C2 (as claimed): the shopCount reported by bestPriceDPOptimized.ts is the minimum
\* number of distinct shops among the minimum-cost assignments.
C2_MinShopCount ==
  (script = "bestPriceDPOptimized" /\ pc = "done" /\ Feasible) =>
    result.shopCount = MinShopsAtMinCost

\* C3 (as claimed): on the scenario V1 = {A:100, B:50}, V2 = {A:90, B:60}, request
\* [A, B], the engine reports totalCost = 150 and vendorCount = 1.
C3_ScenarioAsClaimed ==
  (script = "bestPriceDPOptimized" /\ IsScenario /\ pc = "done") =>
    (result.totalCost = 150 /\ result.shopCount = 1)

\* C3 (amended): on that scenario the four combinations cost (V1,V1) = 150,
\* (V2,V2) = 150, (V1,V2) = 160 and (V2,V1) = 140, and the engine reports
\* totalCost = 140 and vendorCount = 2 (A from V2, B from V1).
C3_Scenario ==
  (script = "bestPriceDPOptimized" /\ IsScenario) =>
    /\ {<<a[1].shop, a[2].shop, SumPrices(a)>> : a \in Assignments}
         = {<<"V1", "V1", 150>>, <<"V2", "V2", 150>>, <<"V1", "V2", 160>>, <<"V2", "V1", 140>>}
    /\ pc \in {"searched", "done"} => dpState.bestCost = 140
    /\ Ended => /\ pc = "done"
                /\ result.totalCost = 140
                /\ result.shopCount = 2
                /\ result.shops = {"V1", "V2"}

\* the scenario's plan was printed
C3_Witness ==
  script = "bestPriceDPOptimized" /\ IsScenario /\ pc = "done" /\ result.printed

C5_PlanConsistency ==
  (script = "bestPriceDPOptimized" /\ Feasible /\ Ended) =>
    /\ pc = "done" /\ result.printed
    /\ Len(result.selectedItems) = N
    /\ \A i \in 1..N :
         /\ result.selectedItems[i].id = selectedItemIds[i]
         /\ \E o \in OptionSet(selectedItemIds[i]) :
              o.shop = result.selectedItems[i].shop /\ o.price = result.selectedItems[i].price
    /\ \A i, j \in 1..N : i # j => result.selectedItems[i].id # result.selectedItems[j].id
    /\ result.totalCost = SumPrices(result.selectedItems)
    /\ result.shopCount = Cardinality(ShopsOf(result.selectedItems))

\* a three-item plan over two or more shops with a positive total was printed
C5_Witness ==
  /\ script = "bestPriceDPOptimized" /\ pc = "done" /\ Feasible /\ N = 3
  /\ Len(result.selectedItems) = 3
  /\ result.shopCount >= 2 /\ result.totalCost > 0

\* C6 (as claimed): the Plan printed by bestPriceDP.ts has shopCount equal to the number
\* of distinct shops in selectedItems, and its shops list is exactly that set of shops.
C6_DPShopCount ==
  (script = "bestPriceDP" /\ pc = "done" /\ Feasible) =>
    /\ result.shopCount = Cardinality(ShopsOf(result.selectedItems))
    /\ result.shops = ShopsOf(result.selectedItems)

\* C7 (as claimed): the selection returned by dp(0,0) in bestPriceDP.ts uses the minimum
\* number of distinct shops among the minimum-cost assignments.
C7_DPMinShops ==
  (script = "bestPriceDP" /\ pc \in {"searched", "done"} /\ Feasible) =>
    Cardinality(ShopsOf(dpResult.selection)) = MinShopsAtMinCost

\* C8: brute force and memoised DP return the same cost, the minimum total over all
\* assignments or Infinity when none exists: in the benchmark
\* bruteForce(items).cost = dynamicProgramming(items).cost (status is not 'differ'),
\* and on every input bestPrice.ts's bestCost and bestPriceDP.ts's dp(0,0).cost both
\* equal that same value.
C8_SameCost ==
  /\ (script = "benchmark" /\ pc = "done") =>
       /\ bench.bfCost = bench.dpCost
       /\ bench.bfCost = MinTotalOrInfinity
       /\ ~bench.differ
  /\ (script = "bestPrice" /\ pc # "start") => bestCost = MinTotalOrInfinity
  /\ (script = "bestPriceDP" /\ pc # "start") => dpResult.cost = MinTotalOrInfinity

\* the benchmark compared both algorithms on three items with a positive minimum
\* that not every assignment attains
C8_Witness ==
  /\ script = "benchmark" /\ pc = "done" /\ Feasible /\ N = 3
  /\ bench.bfCost = bench.dpCost /\ bench.dpCost > 0 /\ bench.dpCost < Infinity
  /\ \E a \in Assignments : SumPrices(a) > bench.dpCost

\* C9 (as claimed): after backtrack(0, [], 0, {}) in bestPrice.ts, bestCost is the
\* minimum total cost and bestSelection is an assignment of that cost using the minimum
\* number of distinct shops among the minimum-cost assignments.
C9_BFMinCostMinShops ==
  (script = "bestPrice" /\ pc \in {"searched", "done"} /\ Feasible) =>
    /\ bestCost = MinTotalCost
    /\ Len(bestSelection) = N
    /\ \A i \in 1..N :
         /\ bestSelection[i].itemId = selectedItemIds[i]
         /\ \E o \in OptionSet(selectedItemIds[i]) :
              o.shop = bestSelection[i].shop /\ o.price = bestSelection[i].price
    /\ SumPrices(bestSelection) = MinTotalCost
    /\ Cardinality(ShopsOf(bestSelection)) = MinShopsAtMinCost

\* C10 (as claimed): the Plan printed by bestPrice.ts has shopCount = number of distinct
\* shops among selectedItems = length of the shops list, totalCost = sum of the prices,
\* and exactly one entry per requested item.
C10_BFPlanConsistency ==
  (script = "bestPrice" /\ pc = "done" /\ Feasible) =>
    /\ result.shopCount = Cardinality(ShopsOf(result.selectedItems))
    /\ result.shopCount = Cardinality(result.shops)
    /\ result.totalCost = SumPrices(result.selectedItems)
    /\ Len(result.selectedItems) = N
    /\ \A i \in 1..N : result.selectedItems[i].id = selectedItemIds[i]

\* C11: for every catalog and every requested sequence, the pruned search and the
\* unpruned memoised search of benchmarkOptimized return the same cost,
\* dpOptimized(items).cost = dpStandard(items).cost, so the status column never
\* shows a mismatch; both equal the minimum total price, or Infinity when some
\* requested item is listed by no shop.
C11_SameCostPruned ==
  (script = "benchmarkOptimized" /\ pc = "done") =>
    /\ bench.optimizedCost = bench.standardCost
    /\ ~bench.differ
    /\ bench.standardCost = MinTotalOrInfinity

\* both searches of benchmarkOptimized ran on a three-item request where the pruned
\* one had a ceiling to prune with and some assignment costs more than the minimum
C11_Witness ==
  /\ script = "benchmarkOptimized" /\ pc = "done" /\ N = 3 /\ Feasible
  /\ bench.bestCostGlobal = MinTotalCost
  /\ bench.optimizedCost = bench.standardCost
  /\ \E a \in Assignments : SumPrices(a) > MinTotalCost
  /\ \E key \in DOMAIN bench.optimizedMemo : bench.optimizedMemo[key] = Infinity

\* dpState as the greedy seed leaves it
SeededState ==
  LET greedyBound == getGreedyUpperBound(selectedItemIds)
  IN [dpStateInit EXCEPT !.bestCost = greedyBound.cost,
                         !.bestShopCount = greedyBound.shopCount,
                         !.writes = <<<<greedyBound.cost, greedyBound.shopCount>>>>]

\* C12: in bestPriceDPOptimized.ts, for every feasible request, the search with any
\* subset of the three pruning rules disabled leaves the same optimal cost in
\* dpState.bestCost as the search with all three enabled (the cost the script
\* reports), and that cost is the minimum total price; with all three enabled the
\* search is dp itself.
C12_PruningKeepsCost ==
  /\ (script = "bestPriceDPOptimized" /\ pc = "searched" /\ Feasible) =>
       dpState.bestCost = MinTotalCost
  /\ (script = "bestPriceDPOptimized" /\ pc = "seeded") =>
       /\ dpWith(PruningRules, 0, 0, 0, dpState) = dp(0, 0, 0, dpState)
       /\ Feasible => dp(0, 0, 0, dpState).st.bestCost = MinTotalCost

\* a three-item search ran in which no rule cut anything (all three disabled) and every
\* state was visited, where the search with the rules enabled is cut at the root
C12_Witness ==
  /\ script = "bestPriceDPOptimized" /\ pc = "searched" /\ N = 3 /\ Feasible
  /\ dpState = dpWith({}, 0, 0, 0, SeededState).st
  /\ dpState.statesPruned = 0
  /\ dpState.statesExplored > dp(0, 0, 0, SeededState).st.statesExplored
  /\ dpState.memoHits > 0
  /\ \E a \in Assignments : SumPrices(a) > MinTotalCost
  /\ dpState.bestCost = MinTotalCost

\* the number of bits of a shop mask: 1 << shopIndex takes shopIndex modulo 32
MaskBits == 32

\* C13 (as claimed): the index build fails when the catalog has more distinct vendors
\* than a mask has bits, so no solve of bestPriceDPOptimized.ts starts with more than
\* 32 vendors or with two distinct vendors on the same mask bit.
C13_VendorLimit ==
  (script = "bestPriceDPOptimized" /\ pc = "start") =>
    /\ Len(shopList) <= MaskBits
    /\ \A i, j \in DOMAIN shopList : i # j => Shl1(i - 1) # Shl1(j - 1)

\* C14 (as claimed): the index build fails when a price string does not parse to a
\* non-negative number, so once the index is built no PriceOption holds NaN or a
\* negative price.
C14_PricesValid ==
  pc # "load" =>
    \A id \in DOMAIN itemToShops : \A j \in DOMAIN itemToShops[id] :
      ~itemToShops[id][j].price.nan /\ ~IsNegative(itemToShops[id][j].price)

\* the count each command line of ArgStrings asks for, 0 standing for a string that
\* is not a positive integer
RequestedCount(a) ==
  CASE a = Undefined -> DefaultItemCount
    [] a = <<"1">> -> 1
    [] a = <<"3">> -> 3
    [] a = <<"5">> -> 5
    [] a = <<"6">> -> 6
    [] a = <<"2", ".", "0">> -> 2
    [] OTHER -> 0

\* C15: when the requested item count is not a positive integer or exceeds the number
\* of distinct items of the catalog, the script exits before any item is picked and
\* before any step of a search; otherwise items are picked and the search starts with
\* exactly that many distinct items of the catalog.
C15_ItemCount ==
  LET requested == RequestedCount(arg)
      valid == requested > 0 /\ requested <= Len(allItemIds)
  IN /\ pc = "exit" => (~valid /\ selectedItemIds = <<>> /\ used = {} /\ SolveInit)
     /\ pc \in {"pick", "start"} => (valid /\ itemCount = requested)
     /\ pc = "start" =>
          /\ N = requested
          /\ \A i, j \in 1..N : i # j => selectedItemIds[i] # selectedItemIds[j]
          /\ \A i \in 1..N : \E k \in DOMAIN allItemIds : allItemIds[k] = selectedItemIds[i]
          /\ SolveInit

\* three of five items were picked, in an order that is not the catalog's, and the
\* search is about to start
C15_Witness ==
  /\ pc = "start" /\ arg = <<"3">> /\ Len(allItemIds) = 5
  /\ selectedItemIds = <<"E", "A", "C">>
  /\ itemCount = 3

\* C17: in bestPriceDP.ts, dp(0, 0).cost is Infinity, and the script ends with
\* 'Could not find a solution' and no Plan, exactly when some requested item is
\* listed by no shop; otherwise the cost is finite and a Plan is printed.
C17_DPInfeasibleIff ==
  script = "bestPriceDP" =>
    /\ pc \in {"searched", "done", "infeasible"} =>
         /\ (dpResult.cost = Infinity) <=> ~Feasible
         /\ Feasible => dpResult.cost = MinTotalCost
    /\ pc = "infeasible" => (~Feasible /\ ~result.printed)
    /\ pc = "done" => (Feasible /\ result.printed /\ result.totalCost < Infinity)
    /\ pc # "fault"

\* bestPriceDP.ts ended without a Plan on a three-item request whose last item no shop
\* lists, after searching every combination of the options of the first two
C17_Witness ==
  /\ script = "bestPriceDP" /\ pc = "infeasible" /\ N = 3
  /\ selectedItemIds[3] \notin DOMAIN itemToShops
  /\ Len(GetOptions(itemToShops, selectedItemIds[1])) >= 2
  /\ Len(GetOptions(itemToShops, selectedItemIds[2])) >= 2
  /\ dpResult.cost = Infinity
  /\ Cardinality(DOMAIN memo) >= 4

\* the minimum additional cost of the items itemIndex .. N-1 (0-based): Infinity when
\* one of them is listed by no shop
MinCompletion(itemIndex) ==
  IF \E i \in (itemIndex + 1)..N : selectedItemIds[i] \notin DOMAIN itemToShops
  THEN Infinity
  ELSE CHOOSE c \in {SumPrices(a) : a \in AssignmentsFrom(itemIndex + 1)} :
         \A a \in AssignmentsFrom(itemIndex + 1) : c <= SumPrices(a)

\* C18 (as claimed): in the pruned searches (dp of bestPriceDPOptimized.ts and dp of
\* dpOptimized) every value stored in memo under the key of (itemIndex, mask) is the
\* minimum additional cost of the items itemIndex .. N-1, and is Infinity only when one
\* of those items has no option.
C18_MemoExact ==
  /\ (script = "bestPriceDPOptimized" /\ pc \in {"searched", "done", "infeasible", "fault"}) =>
       \A key \in DOMAIN dpState.memo : dpState.memo[key] = MinCompletion(key[1])
  /\ (script = "benchmarkOptimized" /\ pc = "done") =>
       \A key \in DOMAIN bench.optimizedMemo :
         bench.optimizedMemo[key] = MinCompletion(key[1])

\* <<cost, shopCount>> pairs in lexicographic order
LexLess(p, q) == p[1] < q[1] \/ (p[1] = q[1] /\ p[2] < q[2])

\* C19: during one solve of bestPriceDPOptimized.ts, after the greedy seed, every write
\* to (bestCost, bestShopCount) strictly lowers bestCost, or keeps bestCost and
\* strictly lowers bestShopCount, so the pair never increases lexicographically; this
\* holds with any of the pruning rules disabled as well.
C19_BestNeverIncreases ==
  /\ (script = "bestPriceDPOptimized" /\ pc = "seeded") =>
       /\ dpState.writes = <<<<dpState.bestCost, dpState.bestShopCount>>>>
       /\ dp(0, 0, 0, dpState).st.writes = dpState.writes
  /\ (script = "bestPriceDPOptimized" /\ pc = "searched") =>
       /\ \A i \in 1..(Len(dpState.writes) - 1) :
            LexLess(dpState.writes[i + 1], dpState.writes[i])
       /\ <<dpState.bestCost, dpState.bestShopCount>> = dpState.writes[Len(dpState.writes)]

\* a search with the accumulated-cost cut disabled wrote the pair twice after the seed,
\* each time with the same cost and fewer shops
C19_Witness ==
  /\ script = "bestPriceDPOptimized" /\ pc = "searched"
  /\ Len(dpState.writes) = 3
  /\ dpState.writes[1] = <<SeededState.bestCost, SeededState.bestShopCount>>
  /\ dpState.writes[2][1] = dpState.writes[1][1]
  /\ dpState.writes[2][2] < dpState.writes[1][2]
  /\ dpState.writes[3][1] = dpState.writes[2][1]
  /\ dpState.writes[3][2] < dpState.writes[2][2]

RECURSIVE MaskOf(_)
\* the mask of the shops of a complete selection of options
MaskOf(a) == IF a = <<>> THEN 0 ELSE BitOr(Shl1(Head(a).shopIndex), MaskOf(Tail(a)))

\* C20 (as claimed): a complete candidate (itemIndex = N) whose accumulated cost equals
\* bestCost and whose mask touches fewer vendors than bestShopCount is evaluated by the
\* terminal check of dp and becomes the new best.
C20_TieCandidateAccepted ==
  (script = "bestPriceDPOptimized" /\ pc = "seeded" /\ Feasible) =>
    \A a \in Assignments :
      (SumPrices(a) = dpState.bestCost /\ popcount(MaskOf(a)) < dpState.bestShopCount) =>
        LET r == dp(N, MaskOf(a), SumPrices(a), dpState)
        IN /\ r.ret = 0
           /\ r.st.bestCost = SumPrices(a)
           /\ r.st.bestShopCount = popcount(MaskOf(a))

\* what a search has explored: dpState without the counter of pruned branches
Explored(st) ==
  [memo |-> st.memo, bestCost |-> st.bestCost, bestShopCount |-> st.bestShopCount,
   statesExplored |-> st.statesExplored, memoHits |-> st.memoHits, writes |-> st.writes]

CheapestListed(id) ==
  CHOOSE p \in {o.price : o \in OptionSet(id)} : \A o \in OptionSet(id) : p <= o.price

RECURSIVE SumCheapest(_)
\* the sum of the cheapest listed prices of the items i..N (1-based)
SumCheapest(i) == IF i > N THEN 0 ELSE CheapestListed(selectedItemIds[i]) + SumCheapest(i + 1)

\* C22: for every request whose items all have options and every i in 0..N,
\* getLowerBound(selectedItemIds, i), which the search and the replay of
\* bestPriceDPOptimized.ts call, is the sum of the cheapest listed prices of the items
\* i..N-1, is at most the total price of every assignment of those items, and is the
\* total price of one of them.
C22_LowerBound ==
  (script = "bestPriceDPOptimized" /\ pc = "done" /\ Feasible) =>
    \A i \in 0..N :
      LET lowerBound == getLowerBound(selectedItemIds, i)
      IN /\ lowerBound = SumCheapest(i + 1)
         /\ \A a \in AssignmentsFrom(i + 1) : lowerBound <= SumPrices(a)
         /\ \E a \in AssignmentsFrom(i + 1) : lowerBound = SumPrices(a)

\* the replay of a three-item request has run, on a catalog where the bounds of the
\* suffixes differ and the last item's cheapest price is not the first one listed
C22_Witness ==
  /\ script = "bestPriceDPOptimized" /\ pc = "done" /\ N = 3 /\ Feasible
  /\ getLowerBound(selectedItemIds, 0) > getLowerBound(selectedItemIds, 1)
  /\ getLowerBound(selectedItemIds, 1) > getLowerBound(selectedItemIds, 2)
  /\ itemToShops[selectedItemIds[3]][1].price > getLowerBound(selectedItemIds, 2)

Qualifying(index, cost) ==
  LET sortedOptions == SortByPrice(GetOptions(itemToShops, selectedItemIds[index + 1]))
  IN {j \in DOMAIN sortedOptions :
        100 * (cost + sortedOptions[j].price + getLowerBound(selectedItemIds, index + 1))
          <= 100 * dpState.bestCost + 1}

\* C24: the replay of bestPriceDPOptimized.ts on a feasible request ends without a
\* fault; at every item index some option passes the test accumulatedCost + price +
\* getLowerBound(items, index + 1) <= bestCost + 0.01, the entry emitted for that index
\* is the first such option in ascending price order, so optimalSelection holds one
\* entry per item, and the accumulated cost at the end is bestCost.
C24_ReplayFirstQualifying ==
  /\ (script = "bestPriceDPOptimized" /\ Ended /\ Feasible) => pc = "done"
  /\ (script = "bestPriceDPOptimized" /\ pc = "done" /\ Feasible) =>
       /\ Len(optimalSelection) = N
       /\ \A index \in 0..(N - 1) :
            LET accumulated == SumPrices(SubSeq(optimalSelection, 1, index))
                sortedOptions ==
                  SortByPrice(GetOptions(itemToShops, selectedItemIds[index + 1]))
                passing == Qualifying(index, accumulated)
            IN /\ passing # {}
               /\ LET first == CHOOSE j \in passing : \A k \in passing : j <= k
                  IN optimalSelection[index + 1] =
                       [itemId |-> selectedItemIds[index + 1],
                        shop |-> sortedOptions[first].shop,
                        price |-> sortedOptions[first].price]
       /\ SumPrices(optimalSelection) = dpState.bestCost

\* the replay of a three-item request has ended where, for the second item, the
\* emitted option is not the one listed first and a later option fails the test
C24_Witness ==
  /\ script = "bestPriceDPOptimized" /\ pc = "done" /\ N = 3 /\ Feasible
  /\ Len(optimalSelection) = 3
  /\ optimalSelection[2].shop # itemToShops[selectedItemIds[2]][1].shop
  /\ Qualifying(1, optimalSelection[1].price)
       # DOMAIN itemToShops[selectedItemIds[2]]
  /\ dpState.bestCost > 0

\* C25: no step of a solve of bestPriceDPOptimized.ts (greedy seed, search, replay)
\* changes the catalog index: itemToShops with the order of each option list, shopList
\* (and with it shopNameToIndex) and the shop data are the same after the step as
\* before it.
C25_IndexUnchanged ==
  [][script = "bestPriceDPOptimized" =>
       /\ itemToShops' = itemToShops
       /\ shopList' = shopList
       /\ shopsData' = shopsData]_vars

\* a replay has sorted the options of every requested item, and the option list of one
\* of them is not in ascending price order in the index
C25_Witness ==
  /\ script = "bestPriceDPOptimized" /\ pc = "done" /\ N >= 2
  /\ Len(optimalSelection) = N
  /\ \E i \in 1..N :
       itemToShops[selectedItemIds[i]] # SortByPrice(itemToShops[selectedItemIds[i]])

\* C26 (as claimed): in dpOptimized of benchmarkOptimized, after the greedy loop and
\* before the first dp call, bestCostGlobal is the sum over the requested items of each
\* item's cheapest price, a finite ceiling.
C26_FiniteCeiling ==
  (script = "benchmarkOptimized" /\ pc = "done" /\ Feasible) =>
    /\ bench.ceiling = SumCheapest(1)
    /\ bench.ceiling < Infinity

\* what pickRandomItems(itemCount, allItemIds) has returned: itemCount ids, pairwise
\* distinct, each one an element of allItemIds
PickedAsAsked ==
  /\ Len(selectedItemIds) = itemCount
  /\ \A i, j \in DOMAIN selectedItemIds : i # j => selectedItemIds[i] # selectedItemIds[j]
  /\ \A i \in DOMAIN selectedItemIds :
       \E k \in DOMAIN allItemIds : allItemIds[k] = selectedItemIds[i]

\* C27: allItemIds being pairwise distinct and 1 <= itemCount <= allItemIds.length when
\* pickRandomItems starts, the loop of pickRandomItems ends, given that an unused index
\* is eventually drawn, and when it has ended selectedItemIds holds exactly itemCount
\* pairwise distinct ids, all taken from allItemIds.
C27_PickTerminates ==
  /\ [](pc = "pick" =>
         /\ 1 <= itemCount /\ itemCount <= Len(allItemIds)
         /\ \A i, j \in DOMAIN allItemIds : i # j => allItemIds[i] # allItemIds[j])
  /\ [](pc = "start" => PickedAsAsked)
  /\ (pc = "pick") ~> (pc = "start")

\* three of five ids have been picked and returned, not in the order of the source
C27_Witness ==
  /\ pc = "start" /\ Len(allItemIds) = 5 /\ itemCount = 3
  /\ PickedAsAsked
  /\ selectedItemIds[1] # allItemIds[1]
  /\ selectedItemIds[2] = allItemIds[1]

\* C28: in bestPriceDPOptimized.ts, for every feasible request, the ceiling seeded from
\* getGreedyUpperBound equals getLowerBound(items, 0), and dp(0, 0, 0) is cut at the
\* root, by the cost cut or the lower-bound cut, without a call for any option: no
\* terminal state writes the best pair, memo holds at most the key of (0, 0), and
\* bestCost and bestShopCount after the search are the seed values.
C28_RootCut ==
  /\ (script = "bestPriceDPOptimized" /\ pc = "seeded" /\ Feasible) =>
       dpState.bestCost = getLowerBound(selectedItemIds, 0)
  /\ (script = "bestPriceDPOptimized" /\ pc = "searched" /\ Feasible) =>
       /\ dpState.statesPruned = 1
       /\ dpState.statesExplored <= 1
       /\ dpState.memoHits = 0
       /\ DOMAIN dpState.memo \subseteq {stateKey(0, 0)}
       /\ Len(dpState.writes) = 1
       /\ <<dpState.bestCost, dpState.bestShopCount>> = dpState.writes[1]
       /\ dpState.bestCost = getGreedyUpperBound(selectedItemIds).cost
       /\ dpState.bestShopCount = getGreedyUpperBound(selectedItemIds).shopCount

\* the search of a three-item request with a positive ceiling has run and was cut at the
\* root by the lower-bound cut, although the first item has an option cheaper than the
\* ceiling
C28_Witness ==
  /\ script = "bestPriceDPOptimized" /\ pc = "searched" /\ N = 3 /\ Feasible
  /\ dpState.statesExplored = 1
  /\ DOMAIN dpState.memo = {stateKey(0, 0)}
  /\ dpState.memo[stateKey(0, 0)] = Infinity
  /\ MinPrice(itemToShops[selectedItemIds[1]]) < dpState.bestCost

\* C29 (as claimed): in bestPrice.ts, at every entry to backtrack and after every undo
\* step, shopsUsedSet is exactly the set of shops occurring in currentSelection.
C29_ShopsUsedExact ==
  script = "bestPrice" =>
    \A seen \in shopsUsedLog : seen.shopsUsedSet = seen.selectionShops

\* C30 (as claimed): for every bitmask obtained by OR-ing 1 << shopIndex over a set of
\* shop indexes within 0..31, popcount terminates, and the count it returns is the
\* number of distinct shop indexes of the set. The loop changes n by n >>= 1 only, so it
\* ends unless n reaches a non-zero value that the shift leaves unchanged.
C30_PopcountTerminates ==
  /\ pc = "returned" => pop.count = Cardinality(pop.shopIndexes)
  /\ pc = "loop" => (pop.n = {} \/ Int32Sar1(pop.n) # pop.n)

====
